---- MODULE Spec2Model ----
(***************************************************************************)
(* Model of the mesh node report script (mesh_nodes_claude.py): the        *)
(* balanced-brace extractor, the age string parser, the normalise /        *)
(* filter / sort stage and the main pipeline that composes them.            *)
(*                                                                         *)
(* Python values are represented as follows.                               *)
(*   str            a sequence of one-character strings                    *)
(*   None / value   the empty set / the singleton set of the value         *)
(*   timedelta      a number of seconds                                    *)
(*   dict           a sequence of [id, node] entries (insertion order)     *)
(***************************************************************************)
EXTENDS Integers, Sequences, FiniteSets, TLC

VARIABLES
    pc,               \* position of the running script
    args,             \* argparse namespace: mode, age, json_out
    age_filter,       \* main: age_filter (None or a timedelta, in seconds)
    cli_calls,        \* number of times the meshtastic CLI was invoked
    output,           \* get_nodes: result.stdout (None before the call)
    text,             \* extract_balanced_braces: the text being scanned
    start,            \* extract_balanced_braces: index of the first '{'
    end,              \* extract_balanced_braces: scan position
    count,            \* extract_balanced_braces: brace depth so far
    mesh_json_block,  \* get_nodes: the extracted block (None when absent)
    mesh_nodes,       \* the decoded node table
    now,              \* filter_and_sort_nodes: datetime.now(), in seconds
    node_list,        \* the filtered and sorted list of node views
    out,              \* what was printed on standard output, line by line
    exit_code,        \* None while running, else the exit status
    json_file         \* None, or the list written to the JSON file

vars == <<pc, args, age_filter, cli_calls, output, text, start, end, count,
          mesh_json_block, mesh_nodes, now, node_list, out, exit_code, json_file>>

----------------------------------------------------------------------------
(* Optional values and Python truthiness *)

None == {}
Some(v) == {v}
Get(o) == CHOOSE v \in o : TRUE

\* bool(x) of an optional str: None and "" are falsy
TruthyStr(o) == o # None /\ Get(o) # <<>>
\* bool(x) of an optional number or timedelta: None and zero are falsy
TruthyNum(o) == o # None /\ Get(o) # 0

\* every sequence over S of length at most n
SeqsUpTo(S, n) == UNION {[1..k -> S] : k \in 0..n}

\* whether pat occurs in text at 1-based position i
OccursAt(str, pat, i) ==
    /\ i >= 1
    /\ i + Len(pat) - 1 <= Len(str)
    /\ \A k \in 1..Len(pat) : str[i + k - 1] = pat[k]

\* str.find of a substring: first 1-based index, 0 when not found
Find(str, pat) ==
    LET hits == {i \in 1..(Len(str) - Len(pat) + 1) : OccursAt(str, pat, i)}
    IN  IF hits = {} THEN 0 ELSE CHOOSE i \in hits : \A j \in hits : i <= j

\* str.find of a single character
FindChar(str, ch) == Find(str, <<ch>>)

\* the `in` operator on strings
Contains(str, pat) == Find(str, pat) # 0

----------------------------------------------------------------------------
(* parse_age_string *)

Digits == {"0", "1", "2", "3", "4", "5", "6", "7", "8", "9"}
Units == {"s", "m", "h", "d"}

DigitValue(c) ==
    CASE c = "0" -> 0 [] c = "1" -> 1 [] c = "2" -> 2 [] c = "3" -> 3
      [] c = "4" -> 4 [] c = "5" -> 5 [] c = "6" -> 6 [] c = "7" -> 7
      [] c = "8" -> 8 [] c = "9" -> 9

\* int() of a string of decimal digits
RECURSIVE IntOf(_)
IntOf(ds) ==
    IF ds = <<>> THEN 0
    ELSE 10 * IntOf(SubSeq(ds, 1, Len(ds) - 1)) + DigitValue(ds[Len(ds)])

\* length of the longest prefix of s made of digits: what (\d+) consumes
RECURSIVE DigitPrefixLen(_)
DigitPrefixLen(s) ==
    IF s # <<>> /\ Head(s) \in Digits THEN 1 + DigitPrefixLen(Tail(s)) ELSE 0

\* timedelta(seconds= / minutes= / hours= / days=), in seconds
UnitSeconds(unit) ==
    CASE unit = "s" -> 1 [] unit = "m" -> 60 [] unit = "h" -> 3600 [] unit = "d" -> 86400

\* re.match(r"(\d+)([smhd])", age_str) anchors at the start of the string only
parse_age_string(age_str) ==
    LET n == DigitPrefixLen(age_str)
    IN  IF n >= 1 /\ Len(age_str) > n /\ age_str[n + 1] \in Units
        THEN Some(IntOf(SubSeq(age_str, 1, n)) * UnitSeconds(age_str[n + 1]))
        ELSE None

----------------------------------------------------------------------------
(* filter_and_sort_nodes: normalisation, mode and age filtering, sorting *)

UpperChar(c) ==
    CASE c = "a" -> "A" [] c = "b" -> "B" [] c = "c" -> "C" [] c = "d" -> "D"
      [] c = "e" -> "E" [] c = "f" -> "F" [] c = "g" -> "G" [] c = "h" -> "H"
      [] c = "i" -> "I" [] c = "j" -> "J" [] c = "k" -> "K" [] c = "l" -> "L"
      [] c = "m" -> "M" [] c = "n" -> "N" [] c = "o" -> "O" [] c = "p" -> "P"
      [] c = "q" -> "Q" [] c = "r" -> "R" [] c = "s" -> "S" [] c = "t" -> "T"
      [] c = "u" -> "U" [] c = "v" -> "V" [] c = "w" -> "W" [] c = "x" -> "X"
      [] c = "y" -> "Y" [] c = "z" -> "Z" [] OTHER -> c

\* str.upper()
Upper(s) == [i \in 1..Len(s) |-> UpperChar(s[i])]

S_unknown == <<"u", "n", "k", "n", "o", "w", "n">>
S_NA == <<"N", "/", "A">>
S_ROUTER == <<"R", "O", "U", "T", "E", "R">>
S_REPEATER == <<"R", "E", "P", "E", "A", "T", "E", "R">>

\* user = node.get("user", {}); user.get(field)
UserGet(node, field) ==
    IF node.user = None THEN None ELSE Get(node.user)[field]

\* a or b or c, on optional strings a, b and a string c
Or3(a, b, c) ==
    IF TruthyStr(a) THEN Get(a) ELSE IF TruthyStr(b) THEN Get(b) ELSE c

\* role = (node.get("role") or user.get("role") or "unknown").upper()
NodeRole(node) == Upper(Or3(node.role, UserGet(node, "role"), S_unknown))

\* mutant of NodeName: the name is user.longName or "unknown", with no
\* fallback to shortName and the id
NodeName_LongNameOnly(node_id, node) ==
    IF UserGet(node, "longName") = None THEN S_unknown ELSE Get(UserGet(node, "longName"))

\* name = user.get("longName") or user.get("shortName") or node_id
NodeName(node_id, node) ==
    Or3(UserGet(node, "longName"), UserGet(node, "shortName"), node_id)

\* the dictionary appended to node_list (last_heard_str, the display
\* rendering of last_heard, is left out)
NodeView(node_id, node) ==
    [name |-> NodeName(node_id, node),
     id |-> node_id,
     role |-> NodeRole(node),
     snr |-> IF node.snr = None THEN S_NA ELSE Get(node.snr),
     hops_away |-> node.hopsAway,
     last_heard |-> node.lastHeard]

\* mutant of ModeSkip: an absent hops_away is not told apart from 0
ModeSkip_AbsentHopsKept(mode, view) ==
    \/ mode = "direct" /\ TruthyNum(view.hops_away)
    \/ mode = "routers" /\ ~(Contains(view.role, S_ROUTER) \/ Contains(view.role, S_REPEATER))

\* the two `continue`s of mode filtering
ModeSkip(mode, view) ==
    \/ mode = "direct" /\ view.hops_away # Some(0)
    \/ mode = "routers" /\ ~(Contains(view.role, S_ROUTER) \/ Contains(view.role, S_REPEATER))

\* the `continue` of age filtering
AgeSkip(age, t, view) ==
    /\ TruthyNum(age)
    /\ view.last_heard # None
    /\ t - Get(view.last_heard) > Get(age)

\* the for loop over mesh_nodes.items()
RECURSIVE FilterLoop(_, _, _, _, _)
FilterLoop(entries, mode, age, t, acc) ==
    IF entries = <<>> THEN acc
    ELSE LET view == NodeView(Head(entries).id, Head(entries).node)
         IN  IF ModeSkip(mode, view) \/ AgeSkip(age, t, view)
             THEN FilterLoop(Tail(entries), mode, age, t, acc)
             ELSE FilterLoop(Tail(entries), mode, age, t, Append(acc, view))

\* key=lambda x: x["last_heard"] or 0
SortKey(view) == IF TruthyNum(view.last_heard) THEN Get(view.last_heard) ELSE 0

\* list.sort(key=..., reverse=True) is stable: equal keys keep their order
RECURSIVE InsertDesc(_, _)
InsertDesc(sorted, view) ==
    IF sorted = <<>> THEN <<view>>
    ELSE IF SortKey(Head(sorted)) >= SortKey(view)
         THEN <<Head(sorted)>> \o InsertDesc(Tail(sorted), view)
         ELSE <<view>> \o sorted

RECURSIVE SortFrom(_, _)
SortFrom(list, acc) ==
    IF list = <<>> THEN acc ELSE SortFrom(Tail(list), InsertDesc(acc, Head(list)))

SortByLastHeard(list) == SortFrom(list, <<>>)

filter_and_sort_nodes(nodes, mode, age, t) ==
    SortByLastHeard(FilterLoop(nodes, mode, age, t, <<>>))

----------------------------------------------------------------------------
(* The device: what `meshtastic --info` prints for a node table *)

Q == "\""
S_user == <<"u", "s", "e", "r">>
S_longName == <<"l", "o", "n", "g", "N", "a", "m", "e">>
S_shortName == <<"s", "h", "o", "r", "t", "N", "a", "m", "e">>
S_role == <<"r", "o", "l", "e">>
S_snr == <<"s", "n", "r">>
S_lastHeard == <<"l", "a", "s", "t", "H", "e", "a", "r", "d">>
S_hopsAway == <<"h", "o", "p", "s", "A", "w", "a", "y">>
Marker == <<"N", "o", "d", "e", "s", " ", "i", "n", " ", "m", "e", "s", "h", ":">>

DigitChar(d) ==
    CASE d = 0 -> "0" [] d = 1 -> "1" [] d = 2 -> "2" [] d = 3 -> "3" [] d = 4 -> "4"
      [] d = 5 -> "5" [] d = 6 -> "6" [] d = 7 -> "7" [] d = 8 -> "8" [] d = 9 -> "9"

\* the decimal numeral of a natural number
RECURSIVE JNum(_)
JNum(n) == IF n < 10 THEN <<DigitChar(n)>> ELSE JNum(n \div 10) \o <<DigitChar(n % 10)>>

\* a JSON string literal (the texts of the model need no escaping)
JStr(s) == <<Q>> \o s \o <<Q>>

\* "key": value for a present field, nothing for an absent one
JField(key, opt, value) ==
    IF opt = None THEN <<>> ELSE <<JStr(key) \o <<":">> \o value>>

RECURSIVE JoinComma(_)
JoinComma(parts) ==
    IF parts = <<>> THEN <<>>
    ELSE IF Len(parts) = 1 THEN Head(parts)
    ELSE Head(parts) \o <<",">> \o JoinComma(Tail(parts))

JObject(members) == <<"{">> \o JoinComma(members) \o <<"}">>

JUser(u) ==
    JObject(JField(S_longName, u.longName, JStr(Get(u.longName)))
            \o JField(S_shortName, u.shortName, JStr(Get(u.shortName)))
            \o JField(S_role, u.role, JStr(Get(u.role))))

JNode(node) ==
    JObject(JField(S_user, node.user, JUser(Get(node.user)))
            \o JField(S_role, node.role, JStr(Get(node.role)))
            \o JField(S_snr, node.snr, Get(node.snr))
            \o JField(S_lastHeard, node.lastHeard, JNum(Get(node.lastHeard)))
            \o JField(S_hopsAway, node.hopsAway, JNum(Get(node.hopsAway))))

\* the JSON text of a node table
RenderTable(entries) ==
    JObject([i \in 1..Len(entries) |->
                 JStr(entries[i].id) \o <<":">> \o JNode(entries[i].node)])

----------------------------------------------------------------------------
(* Inputs of the main pipeline *)

S_Alpha == <<"A", "l", "p", "h", "a">>
S_Beta == <<"B", "e", "t", "a">>
S_Brace == <<"N", "}">>
S_Al == <<"A", "l">>
S_router == <<"r", "o", "u", "t", "e", "r">>
S_repeater == <<"r", "e", "p", "e", "a", "t", "e", "r">>
S_CLIENT == <<"C", "L", "I", "E", "N", "T">>
S_snr55 == <<"5", ".", "5">>
S_file == <<"o", ".", "j", "s", "o", "n">>

IdLetters == <<"a", "b", "c", "d", "e", "f">>
NodeId(i) == <<"!", IdLetters[i]>>

User(long, short, role) == [longName |-> long, shortName |-> short, role |-> role]
Node(user, role, snr, heard, hops) ==
    [user |-> user, role |-> role, snr |-> snr, lastHeard |-> heard, hopsAway |-> hops]
Entry(i, node) == [id |-> NodeId(i), node |-> node]

\* the node tables the device of the pipeline runs may hold
DeviceTables ==
    { <<>>,
      <<Entry(1, Node(Some(User(Some(S_Alpha), None, None)), None, Some(S_snr55), Some(300), Some(0))),
        Entry(2, Node(Some(User(Some(S_Beta), None, None)), None, None, Some(100), Some(2)))>>,
      <<Entry(1, Node(None, None, None, None, Some(0)))>>,
      <<Entry(1, Node(Some(User(Some(S_Brace), None, None)), None, None, Some(300), Some(0)))>>,
      <<Entry(1, Node(None, Some(S_ROUTER), None, Some(100), None)),
        Entry(2, Node(None, None, None, Some(0), Some(0)))>> }

\* text before the marker and after the node table in the CLI's output
Preamble == <<"M", "y", ":", "{", "}", "\n">>
Trailers == {<<>>, <<"\n", "P", ":", "{", "}", "\n">>}

\* the table's text, whole or cut short of its last character
Bodies(table) ==
    LET json == RenderTable(table)
    IN  {json, SubSeq(json, 1, Len(json) - 1)}

\* what the CLI may print on success
CliStdouts ==
    {Preamble}
    \cup {Preamble \o Marker \o <<"\n">>}
    \cup {Preamble \o Marker \o <<" ">> \o body \o trailer :
             body \in UNION {Bodies(t) : t \in DeviceTables}, trailer \in Trailers}

\* subprocess.run: the three failures get_nodes handles, or a completed run
CliFailures == {"CalledProcessError", "TimeoutExpired", "FileNotFoundError"}

\* the --age values of the pipeline runs
S_0s == <<"0", "s">>
S_90s == <<"9", "0", "s">>
S_2m == <<"2", "m">>
S_2h == <<"2", "h">>
S_5mx == <<"5", "m", "x">>
S_abc == <<"a", "b", "c">>
S_5x == <<"5", "x">>
S_1p5h == <<"1", ".", "5", "h">>
AgeArgs == {None, Some(<<>>), Some(S_0s), Some(S_90s), Some(S_2m), Some(S_2h),
            Some(S_5mx), Some(S_abc), Some(S_5x), Some(S_1p5h)}

Modes == {"all", "direct", "routers"}

\* datetime.now() when the report is made
NowValues == {400}

----------------------------------------------------------------------------
(* json.loads on the extracted block: the table whose JSON text the block *)
(* is, None (JSONDecodeError) when the block is not the text of a table   *)

json_loads(block) ==
    IF \E t \in DeviceTables : RenderTable(t) = block
    THEN Some(CHOOSE t \in DeviceTables : RenderTable(t) = block)
    ELSE None

\* str.strip(): drop leading and trailing whitespace
Whitespace == {" ", "\n", "\t"}
Strip(s) ==
    LET keep == {i \in 1..Len(s) : s[i] \notin Whitespace}
    IN  IF keep = {} THEN <<>>
        ELSE SubSeq(s, CHOOSE i \in keep : \A j \in keep : i <= j,
                       CHOOSE i \in keep : \A j \in keep : i >= j)

\* output[mesh_start + len("Nodes in mesh:"):].strip()
MeshData(stdout) ==
    Strip(SubSeq(stdout, Find(stdout, Marker) + Len(Marker), Len(stdout)))

----------------------------------------------------------------------------
(* display_nodes *)

Line(kind) == [kind |-> kind, label |-> "", row |-> None]

ModeLabel(mode) ==
    CASE mode = "direct" -> "Directly Connected Nodes"
      [] mode = "routers" -> "Router and Repeater Nodes"
      [] mode = "all" -> "All Nodes"
      [] OTHER -> "All Nodes"

\* the lines display_nodes prints (column widths are not modelled)
display_nodes(nodes, mode) ==
    <<[kind |-> "report_header", label |-> ModeLabel(mode), row |-> None]>>
    \o IF nodes = <<>> THEN <<Line("no_nodes")>>
       ELSE <<Line("table_header"), Line("table_separator")>>
            \o [i \in 1..Len(nodes) |-> [kind |-> "row", label |-> "", row |-> Some(nodes[i])]]

----------------------------------------------------------------------------
(* main: the pipeline, one action per step *)

\* the variables of extract_balanced_braces
scan == <<text, start, end, count, mesh_json_block>>

\* print the lines and sys.exit(1)
Exit(kinds) ==
    /\ out' = out \o [i \in 1..Len(kinds) |-> Line(kinds[i])]
    /\ exit_code' = Some(1)
    /\ pc' = "exited"

Init ==
    /\ pc = "main"
    /\ args \in [mode : Modes, age : AgeArgs, json_out : {None, Some(S_file)}]
    /\ age_filter = None
    /\ cli_calls = 0
    /\ output = None
    /\ text = <<>>
    /\ start = 0
    /\ end = 0
    /\ count = 0
    /\ mesh_json_block = None
    /\ mesh_nodes = <<>>
    /\ now = 0
    /\ node_list = <<>>
    /\ out = <<>>
    /\ exit_code = None
    /\ json_file = None

\* main, `if args.age:` ... sys.exit(1)
MainParseAge ==
    /\ pc = "main"
    /\ IF TruthyStr(args.age)
       THEN /\ age_filter' = parse_age_string(Get(args.age))
            /\ IF ~TruthyNum(age_filter')
               THEN Exit(<<"err_invalid_age">>)
               ELSE pc' = "get_nodes" /\ UNCHANGED <<out, exit_code>>
       ELSE /\ pc' = "get_nodes"
            /\ UNCHANGED <<age_filter, out, exit_code>>
    /\ UNCHANGED <<args, cli_calls, output, scan, mesh_nodes, now, node_list, json_file>>

CliErrorLine(failure) ==
    CASE failure = "CalledProcessError" -> "err_cli"
      [] failure = "TimeoutExpired" -> "err_timeout"
      [] failure = "FileNotFoundError" -> "err_cli_not_found"

\* get_nodes, subprocess.run raises
GetNodesCliFails ==
    /\ pc = "get_nodes"
    /\ cli_calls' = cli_calls + 1
    /\ \E failure \in CliFailures : Exit(<<CliErrorLine(failure)>>)
    /\ UNCHANGED <<args, age_filter, output, scan, mesh_nodes, now, node_list, json_file>>

\* get_nodes, subprocess.run returns
GetNodesCliReturns ==
    /\ pc = "get_nodes"
    /\ cli_calls' = cli_calls + 1
    /\ \E stdout \in CliStdouts : output' = Some(stdout)
    /\ pc' = "find_section"
    /\ UNCHANGED <<args, age_filter, scan, mesh_nodes, now, node_list, out,
                   exit_code, json_file>>

\* get_nodes, output.find("Nodes in mesh:"), then the call of
\* extract_balanced_braces on the stripped text after the marker
GetNodesFindSection ==
    /\ pc = "find_section"
    /\ IF Find(Get(output), Marker) = 0
       THEN Exit(<<"err_no_section">>) /\ UNCHANGED text
       ELSE /\ text' = MeshData(Get(output))
            /\ pc' = "extract_find"
            /\ UNCHANGED <<out, exit_code>>
    /\ UNCHANGED <<args, age_filter, cli_calls, output, start, end, count,
                   mesh_json_block, mesh_nodes, now, node_list, json_file>>

\* extract_balanced_braces, text.find('{') and the start of the loop
ExtractFind ==
    /\ pc = "extract_find"
    /\ start' = FindChar(text, "{")
    /\ IF start' = 0
       THEN /\ mesh_json_block' = None
            /\ pc' = "extracted"
            /\ UNCHANGED <<end, count>>
       ELSE /\ count' = 0
            /\ end' = start'
            /\ pc' = "extract_scan"
            /\ UNCHANGED mesh_json_block
    /\ UNCHANGED <<args, age_filter, cli_calls, output, text, mesh_nodes, now,
                   node_list, out, exit_code, json_file>>

\* extract_balanced_braces, one iteration of the while loop
ExtractScan ==
    /\ pc = "extract_scan"
    /\ end <= Len(text)
    /\ IF text[end] = "{"
       THEN /\ count' = count + 1
            /\ end' = end + 1
            /\ UNCHANGED <<pc, mesh_json_block>>
       ELSE IF text[end] = "}"
       THEN /\ count' = count - 1
            /\ IF count' = 0
               THEN /\ mesh_json_block' = Some(SubSeq(text, start, end))
                    /\ pc' = "extracted"
                    /\ UNCHANGED end
               ELSE /\ end' = end + 1
                    /\ UNCHANGED <<pc, mesh_json_block>>
       ELSE /\ end' = end + 1
            /\ UNCHANGED <<pc, count, mesh_json_block>>
    /\ UNCHANGED <<args, age_filter, cli_calls, output, text, start, mesh_nodes,
                   now, node_list, out, exit_code, json_file>>

\* mutant of ExtractEnd: the unclosed rest of the text is returned
ExtractEnd_ReturnsRest ==
    /\ pc = "extract_scan"
    /\ end > Len(text)
    /\ mesh_json_block' = Some(SubSeq(text, start, Len(text)))
    /\ pc' = "extracted"
    /\ UNCHANGED <<args, age_filter, cli_calls, output, text, start, end, count,
                   mesh_nodes, now, node_list, out, exit_code, json_file>>

\* extract_balanced_braces, the loop ran off the end of the text
ExtractEnd ==
    /\ pc = "extract_scan"
    /\ end > Len(text)
    /\ mesh_json_block' = None
    /\ pc' = "extracted"
    /\ UNCHANGED <<args, age_filter, cli_calls, output, text, start, end, count,
                   mesh_nodes, now, node_list, out, exit_code, json_file>>

\* mutant of GetNodesCheckBlock: a missing block is reported and the run
\* goes on with an empty node table
GetNodesCheckBlock_NoExit ==
    /\ pc = "extracted"
    /\ IF ~TruthyStr(mesh_json_block)
       THEN /\ out' = Append(out, Line("err_extraction"))
            /\ pc' = "filter"
            /\ UNCHANGED exit_code
       ELSE pc' = "load_json" /\ UNCHANGED <<out, exit_code>>
    /\ UNCHANGED <<args, age_filter, cli_calls, output, scan, mesh_nodes, now,
                   node_list, json_file>>

\* get_nodes, `if not mesh_json_block:` ... sys.exit(1)
GetNodesCheckBlock ==
    /\ pc = "extracted"
    /\ IF ~TruthyStr(mesh_json_block)
       THEN Exit(<<"err_extraction">>)
       ELSE pc' = "load_json" /\ UNCHANGED <<out, exit_code>>
    /\ UNCHANGED <<args, age_filter, cli_calls, output, scan, mesh_nodes, now,
                   node_list, json_file>>

\* get_nodes, json.loads(mesh_json_block)
GetNodesLoad ==
    /\ pc = "load_json"
    /\ LET decoded == json_loads(Get(mesh_json_block))
       IN  IF decoded = None
           THEN Exit(<<"err_json", "err_json_raw_block">>) /\ UNCHANGED mesh_nodes
           ELSE /\ mesh_nodes' = Get(decoded)
                /\ pc' = "filter"
                /\ UNCHANGED <<out, exit_code>>
    /\ UNCHANGED <<args, age_filter, cli_calls, output, scan, now, node_list, json_file>>

\* main, filter_and_sort_nodes(mesh_nodes, args.mode, age_filter)
MainFilterSort ==
    /\ pc = "filter"
    /\ \E t \in NowValues :
           /\ now' = t
           /\ node_list' = filter_and_sort_nodes(mesh_nodes, args.mode, age_filter, t)
    /\ pc' = "display"
    /\ UNCHANGED <<args, age_filter, cli_calls, output, scan, mesh_nodes, out,
                   exit_code, json_file>>

\* main, display_nodes(node_list, args.mode)
MainDisplay ==
    /\ pc = "display"
    /\ out' = out \o display_nodes(node_list, args.mode)
    /\ pc' = "export"
    /\ UNCHANGED <<args, age_filter, cli_calls, output, scan, mesh_nodes, now,
                   node_list, exit_code, json_file>>

\* main, the optional JSON export; an IOError is reported and not fatal
MainExport ==
    /\ pc = "export"
    /\ IF TruthyStr(args.json_out)
       THEN \E written \in BOOLEAN :
                IF written
                THEN /\ json_file' = Some(node_list)
                     /\ out' = Append(out, Line("json_saved"))
                ELSE /\ out' = Append(out, Line("err_json_write"))
                     /\ UNCHANGED json_file
       ELSE UNCHANGED <<out, json_file>>
    /\ exit_code' = Some(0)
    /\ pc' = "done"
    /\ UNCHANGED <<args, age_filter, cli_calls, output, scan, mesh_nodes, now, node_list>>

Next ==
    \/ MainParseAge
    \/ GetNodesCliFails
    \/ GetNodesCliReturns
    \/ GetNodesFindSection
    \/ ExtractFind
    \/ ExtractScan
    \/ ExtractEnd
    \/ GetNodesCheckBlock
    \/ GetNodesLoad
    \/ MainFilterSort
    \/ MainDisplay
    \/ MainExport

Spec == Init /\ [][Next]_vars

----------------------------------------------------------------------------
(* extract_balanced_braces on its own, over a wider set of texts *)

MaxTextLen == 6
MaxDepth == 3

BraceAlphabet == {"{", "}", "a"}

\* JSON objects of nesting depth at most d; string values may hold braces
JsonKey == JStr(<<"k">>) \o <<":">>
JsonScalars == {<<"1">>, JStr(<<"v">>), JStr(<<"}">>), JStr(<<"{">>)}
RECURSIVE JsonObjects(_)
JsonObjects(d) ==
    IF d = 0 THEN {}
    ELSE LET inner == JsonObjects(d - 1)
         IN  {<<"{", "}">>}
             \cup {<<"{">> \o JsonKey \o v \o <<"}">> : v \in JsonScalars \cup inner}
             \cup {<<"{">> \o JsonKey \o v \o <<",">> \o JsonKey \o w \o <<"}">> :
                      v \in inner, w \in {<<"1">>, <<"{", "}">>}}

\* text around the object, free of braces
PreTexts == {<<>>, <<"a", " ">>, <<Q>>}
PostTexts == {<<>>, <<" ", "a">>}

ExtractTexts ==
    SeqsUpTo(BraceAlphabet, MaxTextLen)
    \cup {pre \o obj \o post :
             pre \in PreTexts, obj \in JsonObjects(MaxDepth), post \in PostTexts}

InitExtract ==
    /\ pc = "extract_find"
    /\ text \in ExtractTexts
    /\ args = [mode |-> "all", age |-> None, json_out |-> None]
    /\ age_filter = None
    /\ cli_calls = 0
    /\ output = None
    /\ start = 0
    /\ end = 0
    /\ count = 0
    /\ mesh_json_block = None
    /\ mesh_nodes = <<>>
    /\ now = 0
    /\ node_list = <<>>
    /\ out = <<>>
    /\ exit_code = None
    /\ json_file = None

NextExtract == ExtractFind \/ ExtractScan \/ ExtractEnd

SpecExtract == InitExtract /\ [][NextExtract]_vars

----------------------------------------------------------------------------
(* parse_age_string on its own, over every short string *)

MaxAgeLen == 3

AgeAlphabet == {"0", "2", "9", "s", "m", "h", "d", "x", "."}
AgeStrings == SeqsUpTo(AgeAlphabet, MaxAgeLen) \cup UNION AgeArgs

InitAge ==
    /\ pc = "call_parse_age_string"
    /\ args \in [mode : {"all"}, age : {Some(a) : a \in AgeStrings}, json_out : {None}]
    /\ age_filter = None
    /\ cli_calls = 0
    /\ output = None
    /\ text = <<>>
    /\ start = 0
    /\ end = 0
    /\ count = 0
    /\ mesh_json_block = None
    /\ mesh_nodes = <<>>
    /\ now = 0
    /\ node_list = <<>>
    /\ out = <<>>
    /\ exit_code = None
    /\ json_file = None

\* age_filter = parse_age_string(args.age)
CallParseAge ==
    /\ pc = "call_parse_age_string"
    /\ age_filter' = parse_age_string(Get(args.age))
    /\ pc' = "parse_age_string_returned"
    /\ UNCHANGED <<args, cli_calls, output, scan, mesh_nodes, now, node_list,
                   out, exit_code, json_file>>

NextAge == CallParseAge

SpecAge == InitAge /\ [][NextAge]_vars

----------------------------------------------------------------------------
(* filter_and_sort_nodes on its own, over a wider set of node tables *)

MaxNodes == 3

S_150s == <<"1", "5", "0", "s">>

OptNames(name) == {None, Some(<<>>), Some(name)}

\* records with every combination of present, empty and absent fields
SparseUsers ==
    {None} \cup {Some(User(l, s, r)) :
                    l \in OptNames(S_Alpha), s \in OptNames(S_Al), r \in OptNames(S_repeater)}
SparseNodes ==
    {Node(u, r, None, heard, hops) :
        u \in SparseUsers, r \in OptNames(S_router) \cup {Some(S_CLIENT)},
        heard \in {None, Some(300)}, hops \in {None, Some(0), Some(1)}}

\* records that differ in lastHeard and hopsAway only
PlainNodes ==
    {Node(None, None, None, heard, hops) :
        heard \in {None, Some(0), Some(100), Some(300)}, hops \in {None, Some(0), Some(2)}}

FilterTables ==
    {<<Entry(1, n)>> : n \in SparseNodes}
    \cup UNION {{[i \in 1..k |-> Entry(i, f[i])] : f \in [1..k -> PlainNodes]} : k \in 0..MaxNodes}

\* main only passes on None or a non-zero timedelta
FilterAges == {None, Some(S_150s)}

InitFilter ==
    /\ pc = "filter"
    /\ args \in [mode : Modes, age : FilterAges, json_out : {None}]
    /\ age_filter = IF args.age = None THEN None ELSE parse_age_string(Get(args.age))
    /\ mesh_nodes \in FilterTables
    /\ cli_calls = 1
    /\ output = None
    /\ text = <<>>
    /\ start = 0
    /\ end = 0
    /\ count = 0
    /\ mesh_json_block = None
    /\ now = 0
    /\ node_list = <<>>
    /\ out = <<>>
    /\ exit_code = None
    /\ json_file = None

NextFilter == MainFilterSort

SpecFilter == InitFilter /\ [][NextFilter]_vars

----------------------------------------------------------------------------
(* What the claims speak of, stated without the code's own operators *)

\* '{' minus '}' over s[from..to]
Depth(s, from, to) ==
    Cardinality({j \in from..to : s[j] = "{"}) - Cardinality({j \in from..to : s[j] = "}"})

HasOpen(s) == \E i \in 1..Len(s) : s[i] = "{"
FirstOpen(s) == CHOOSE i \in 1..Len(s) : s[i] = "{" /\ \A j \in 1..(i - 1) : s[j] # "{"

\* the depth counted from the first '{' comes back to zero somewhere
DepthReturnsToZero(s) ==
    HasOpen(s) /\ \E i \in FirstOpen(s)..Len(s) : Depth(s, FirstOpen(s), i) = 0

\* b opens with '{', closes with '}' at depth zero, and not before
Balanced(b) ==
    /\ Len(b) >= 2
    /\ b[1] = "{"
    /\ b[Len(b)] = "}"
    /\ Depth(b, 1, Len(b)) = 0
    /\ \A i \in 1..(Len(b) - 1) : Depth(b, 1, i) > 0

\* the JSON object s consists of, apart from brace-free text around it
SingleObject(s) ==
    LET braces == {i \in 1..Len(s) : s[i] \in {"{", "}"}}
    IN  IF braces = {} THEN None
        ELSE LET sub == SubSeq(s, CHOOSE i \in braces : \A j \in braces : i <= j,
                                  CHOOSE i \in braces : \A j \in braces : i >= j)
             IN  IF sub \in JsonObjects(MaxDepth) THEN Some(sub) ELSE None

\* C7: extract_balanced_braces returns absent when the text has no '{' and
\* when the depth counted from the first '{' never returns to zero; what it
\* returns is never a partial, unbalanced substring.
C7_AbsentUnlessBalanced ==
    pc = "extracted" =>
        /\ ~HasOpen(text) => mesh_json_block = None
        /\ ~DepthReturnsToZero(text) => mesh_json_block = None
        /\ mesh_json_block # None =>
               /\ Balanced(Get(mesh_json_block))
               /\ Get(mesh_json_block) =
                      SubSeq(text, FirstOpen(text), FirstOpen(text) + Len(Get(mesh_json_block)) - 1)

\* an object opened, an inner one closed, the outer one never closed
C7_Witness ==
    /\ pc = "extracted"
    /\ HasOpen(text)
    /\ \E i \in 1..Len(text) : text[i] = "}"
    /\ ~DepthReturnsToZero(text)
    /\ Depth(text, FirstOpen(text), Len(text)) = 1
    /\ mesh_json_block = None

\* C1: for a text that holds one well-formed JSON object between brace-free
\* text, extract_balanced_braces returns exactly that object, from its
\* opening '{' to its own closing '}'.
C1_ExactObject ==
    (pc = "extracted" /\ SingleObject(text) # None) => mesh_json_block = SingleObject(text)


\* the duration of a string that is digits and one unit letter and nothing
\* else, None for any other string
GrammarDuration(s) ==
    IF /\ Len(s) >= 2
       /\ \A i \in 1..(Len(s) - 1) : s[i] \in Digits
       /\ s[Len(s)] \in Units
    THEN Some(IntOf(SubSeq(s, 1, Len(s) - 1)) * UnitSeconds(s[Len(s)]))
    ELSE None

\* C3: parse_age_string returns a duration only for an unsigned integer
\* immediately followed by one unit letter and nothing else ("90s" is 90
\* seconds, "2h" is 7200 seconds) and returns absent for every other string.
C3_ExactGrammar ==
    pc = "parse_age_string_returned" =>
        /\ age_filter = GrammarDuration(Get(args.age))
        /\ args.age = Some(S_90s) => age_filter = Some(90)
        /\ args.age = Some(S_2h) => age_filter = Some(7200)

\* the peer with this id has a row in the report
InReport(id) == \E j \in 1..Len(node_list) : node_list[j].id = id

\* the peer was heard no longer ago than the duration
HeardWithin(node, duration) ==
    node.lastHeard # None /\ now - Get(node.lastHeard) <= duration

\* C2: with an age filter a peer is kept if and only if its lastHeard is
\* present and its age does not exceed the duration (so a peer with no
\* lastHeard is excluded); with no age filter the recency stage excludes
\* no peer. Stated in mode "all", where recency is the only filter.
C2_KeptIffHeardWithin ==
    (pc = "display" /\ args.mode = "all") =>
        \A i \in 1..Len(mesh_nodes) :
            InReport(mesh_nodes[i].id) <=>
                (age_filter = None \/ HeardWithin(mesh_nodes[i].node, Get(age_filter)))

\* C4: the sorted list is a permutation of the peers that passed the
\* filters, ordered by lastHeard descending, and every peer with an absent
\* lastHeard comes after every peer with a present one.
C4_AbsentSortsLast ==
    pc = "display" =>
        /\ \A i, j \in 1..Len(node_list) : node_list[i].id = node_list[j].id => i = j
        /\ \A j \in 1..Len(node_list) :
               \E i \in 1..Len(mesh_nodes) : mesh_nodes[i].id = node_list[j].id
        /\ (args.mode = "all" /\ age_filter = None) => Len(node_list) = Len(mesh_nodes)
        /\ \A i, j \in 1..Len(node_list) :
               i < j =>
                   /\ node_list[i].last_heard = None => node_list[j].last_heard = None
                   /\ (node_list[i].last_heard # None /\ node_list[j].last_heard # None)
                          => Get(node_list[i].last_heard) >= Get(node_list[j].last_heard)

S_UNKNOWN == <<"U", "N", "K", "N", "O", "W", "N">>
LowerCase == {"a", "b", "c", "d", "e", "f", "g", "h", "i", "j", "k", "l", "m", "n",
              "o", "p", "q", "r", "s", "t", "u", "v", "w", "x", "y", "z"}

\* a field that is present and not empty
Available(o) == o # None /\ Get(o) # <<>>

\* the first available of user.longName, user.shortName, id
ChainName(entry) ==
    LET u == entry.node.user
    IN  IF u # None /\ Available(Get(u).longName) THEN Get(Get(u).longName)
        ELSE IF u # None /\ Available(Get(u).shortName) THEN Get(Get(u).shortName)
        ELSE entry.id

\* the first available of record.role, user.role, "unknown", before upper()
ChainRole(entry) ==
    LET u == entry.node.user
    IN  IF Available(entry.node.role) THEN Get(entry.node.role)
        ELSE IF u # None /\ Available(Get(u).role) THEN Get(Get(u).role)
        ELSE S_unknown

SameLetters(a, b) ==
    Len(a) = Len(b) /\ \A k \in 1..Len(a) : a[k] = b[k] \/ UpperChar(b[k]) = a[k]

\* C5: every record, however sparse, gets a view: with no filter every
\* record has one; name is the first available of user.longName,
\* user.shortName, id and is never empty; role is the upper case of the
\* first available of record.role, user.role, "UNKNOWN"; a record with no
\* user and no role has role "UNKNOWN" and name equal to its id.
C5_NormalizationTotal ==
    pc = "display" =>
        /\ (args.mode = "all" /\ age_filter = None) =>
               \A i \in 1..Len(mesh_nodes) : InReport(mesh_nodes[i].id)
        /\ \A i \in 1..Len(mesh_nodes) : \A j \in 1..Len(node_list) :
               node_list[j].id = mesh_nodes[i].id =>
                   /\ node_list[j].name = ChainName(mesh_nodes[i])
                   /\ node_list[j].name # <<>>
                   /\ SameLetters(node_list[j].role, ChainRole(mesh_nodes[i]))
                   /\ \A k \in 1..Len(node_list[j].role) : node_list[j].role[k] \notin LowerCase
                   /\ node_list[j].role # <<>>
                   /\ (mesh_nodes[i].node.user = None /\ mesh_nodes[i].node.role = None) =>
                          /\ node_list[j].role = S_UNKNOWN
                          /\ node_list[j].name = node_list[j].id

\* a record with neither user nor role is in the report
C5_Witness ==
    /\ pc = "display"
    /\ \E i \in 1..Len(mesh_nodes) :
           /\ mesh_nodes[i].node.user = None
           /\ mesh_nodes[i].node.role = None
           /\ InReport(mesh_nodes[i].id)
    /\ node_list # <<>>
    /\ node_list[1].role = S_UNKNOWN

\* C6: in mode "direct" every peer of the report has hopsAway reported and
\* equal to 0, whatever its role, and every peer with hopsAway 0 that the
\* age filter does not exclude is in the report.
C6_DirectIsZeroHops ==
    (pc = "display" /\ args.mode = "direct") =>
        \A i \in 1..Len(mesh_nodes) :
            /\ InReport(mesh_nodes[i].id) => mesh_nodes[i].node.hopsAway = Some(0)
            /\ (/\ mesh_nodes[i].node.hopsAway = Some(0)
                /\ (age_filter = None \/ HeardWithin(mesh_nodes[i].node, Get(age_filter))))
                   => InReport(mesh_nodes[i].id)

\* a router with no hopsAway is left out of the direct report
C6_Witness ==
    /\ pc = "display"
    /\ args.mode = "direct"
    /\ Len(mesh_nodes) = 1
    /\ mesh_nodes[1].node.hopsAway = None
    /\ mesh_nodes[1].node.role = Some(S_router)
    /\ node_list = <<>>


\* the CLI's output has the marker
SectionFound == output # None /\ Find(Get(output), Marker) # 0

\* the text of the CLI's output after the marker
AfterMarker ==
    SubSeq(Get(output), Find(Get(output), Marker) + Len(Marker), Len(Get(output)))

\* no balanced block can be taken from s
NoBalancedBlock(s) == ~DepthReturnsToZero(s)

ReportKinds ==
    {"report_header", "no_nodes", "table_header", "table_separator", "row", "json_saved"}

Printed(kind) == \E i \in 1..Len(out) : out[i].kind = kind

\* C8: an age string that does not match the grammar ends the run with the
\* invalid-age report before the device CLI is invoked; it is never taken
\* as "no age filter".
C8_InvalidAgeFailsFast ==
    (args.age # None /\ GrammarDuration(Get(args.age)) = None) =>
        /\ cli_calls = 0
        /\ pc # "main" =>
               /\ pc = "exited"
               /\ exit_code = Some(1)
               /\ out = <<Line("err_invalid_age")>>

\* C9: when the text after the marker has no balanced block, the run ends
\* with the extraction-failed report and nothing of the report is emitted:
\* no header, no row, no JSON export, and the CLI is not invoked again.
C9_NoPartialReport ==
    (SectionFound /\ NoBalancedBlock(AfterMarker)) =>
        /\ pc \in {"find_section", "extract_find", "extract_scan", "extracted", "exited"}
        /\ \A i \in 1..Len(out) : out[i].kind \notin ReportKinds
        /\ json_file = None
        /\ cli_calls = 1
        /\ pc = "exited" =>
               /\ exit_code = Some(1)
               /\ out = <<Line("err_extraction")>>

\* a run ended by a node table cut short of its closing brace
C9_Witness ==
    /\ SectionFound
    /\ HasOpen(AfterMarker)
    /\ NoBalancedBlock(AfterMarker)
    /\ pc = "exited"
    /\ Printed("err_extraction")
    /\ args.json_out # None

\* C10: every age string that matches the grammar, a zero one included, is
\* accepted (no invalid-age report) and then excludes from the report every
\* peer whose age exceeds the duration.
C10_GrammaticalAgeApplied ==
    (args.age # None /\ GrammarDuration(Get(args.age)) # None) =>
        /\ ~Printed("err_invalid_age")
        /\ pc \in {"display", "export", "done"} =>
               \A i \in 1..Len(mesh_nodes) :
                   (/\ mesh_nodes[i].node.lastHeard # None
                    /\ now - Get(mesh_nodes[i].node.lastHeard)
                           > Get(GrammarDuration(Get(args.age))))
                       => ~InReport(mesh_nodes[i].id)

====
